---- MODULE Spec2Model ----
(***************************************************************************)
(* Model of 3.Discounted_Cash_Flow.py: the DCF valuation done by           *)
(* calculate_dcf for one ticker, and the module-level batch driver that    *)
(* maps safe_calculate_dcf over the ticker list on a thread pool.          *)
(*                                                                         *)
(* Numbers.  The program computes with Python/numpy floats.  A value is a  *)
(* record [k, n, d]: k = "num" is the exact rational n/d in lowest terms   *)
(* (d > 0), k = "nan" is a float NaN (yfinance statement cells are NaN     *)
(* when a line item is not reported for the period), k = "none" is         *)
(* Python's None (an info key present without a value), and k = "err" is   *)
(* the result of an operation that raised (ZeroDivisionError, TypeError).  *)
(* Rounding of binary floating point is not modelled.                      *)
(***************************************************************************)
EXTENDS Integers, Sequences, FiniteSets, TLC

----------------------------------------------------------------------------
(* Values and arithmetic *)

Abs(x) == IF x < 0 THEN -x ELSE x

RECURSIVE GCD(_, _)
GCD(a, b) == IF b = 0 THEN a ELSE GCD(b, a % b)

Q(n, d) == LET g == GCD(Abs(n), d) IN [k |-> "num", n |-> n \div g, d |-> d \div g]
I(n) == [k |-> "num", n |-> n, d |-> 1]
NaN == [k |-> "nan", n |-> 0, d |-> 1]
None == [k |-> "none", n |-> 0, d |-> 1]
Err == [k |-> "err", n |-> 0, d |-> 1]
Zero == I(0)
One == I(1)

IsNum(a) == a.k = "num"
\* an operand that makes a Python arithmetic operator or comparison raise
Raises(a, b) == a.k \in {"err", "none"} \/ b.k \in {"err", "none"}
AnyNaN(a, b) == a.k = "nan" \/ b.k = "nan"

Add(a, b) ==
    IF Raises(a, b) THEN Err
    ELSE IF AnyNaN(a, b) THEN NaN
    ELSE LET g == GCD(a.d, b.d)
         IN Q(a.n * (b.d \div g) + b.n * (a.d \div g), (a.d \div g) * b.d)

Neg(a) == IF IsNum(a) THEN [a EXCEPT !.n = -a.n] ELSE a

Sub(a, b) ==
    IF Raises(a, b) THEN Err ELSE Add(a, Neg(b))

Mul(a, b) ==
    IF Raises(a, b) THEN Err
    ELSE IF AnyNaN(a, b) THEN NaN
    ELSE LET g1 == GCD(Abs(a.n), b.d)
             g2 == GCD(Abs(b.n), a.d)
         IN [k |-> "num",
             n |-> (a.n \div g1) * (b.n \div g2),
             d |-> (a.d \div g2) * (b.d \div g1)]

\* a / b: dividing by zero raises ZeroDivisionError
Div(a, b) ==
    IF Raises(a, b) THEN Err
    ELSE IF AnyNaN(a, b) THEN NaN
    ELSE IF b.n = 0 THEN Err
    ELSE Mul(a, [k |-> "num",
                 n |-> IF b.n < 0 THEN -b.d ELSE b.d,
                 d |-> Abs(b.n)])

\* a ** t for an integer t >= 0
RECURSIVE Pow(_, _)
Pow(a, t) == IF t = 0 THEN (IF a.k = "err" \/ a.k = "none" THEN Err ELSE One)
             ELSE Mul(Pow(a, t - 1), a)

\* comparisons: every ordered comparison with NaN is False
Lt(a, b) == IsNum(a) /\ IsNum(b) /\ a.n * b.d < b.n * a.d
Gt(a, b) == Lt(b, a)
Le(a, b) == IsNum(a) /\ IsNum(b) /\ a.n * b.d <= b.n * a.d
Ge(a, b) == Le(b, a)
\* x != 0: True for NaN and for None
NeZero(a) == ~(IsNum(a) /\ a.n = 0)
\* bool(x): NaN is truthy, None is falsy
Truthy(a) == a.k = "nan" \/ (IsNum(a) /\ a.n # 0)
\* np.isnan(x)
isnan(a) == a.k = "nan"

\* the builtins max(a, b) and min(a, b): the first argument is kept unless
\* the second compares strictly greater (smaller)
PyMax(a, b) == IF Raises(a, b) THEN Err ELSE IF Gt(b, a) THEN b ELSE a
PyMin(a, b) == IF Raises(a, b) THEN Err ELSE IF Lt(b, a) THEN b ELSE a

\* the builtin sum(seq): 0 + seq[1] + seq[2] + ...
RECURSIVE SumTo(_, _)
SumTo(seq, j) == IF j = 0 THEN Zero ELSE Add(SumTo(seq, j - 1), seq[j])
PySum(seq) == SumTo(seq, Len(seq))

----------------------------------------------------------------------------
(* Snapshot: the line items pulled from the provider's response *)

Missing == [k |-> "missing", n |-> 0, d |-> 1]

\* info.get(key, default): the default only when the key is absent
\* frame.loc[key].iloc[0] if key in frame.index else default
Get(raw, default) == IF raw.k = "missing" THEN default ELSE raw

Fields ==
    {"ebit", "taxes", "income_before_tax", "depreciation", "capex",
     "working_capital_change", "interest_expense", "total_debt",
     "cash_equivalents", "shares_outstanding", "market_cap", "current_assets",
     "current_liabilities", "net_ppe", "beta", "current_price", "net_income"}

\* lines 54-69 (and line 83 for net_income): every absent item becomes 0,
\* an absent beta becomes 1, and capex is the negated cash-flow line
normalize(raw) ==
    [f \in Fields |->
        CASE f = "beta"  -> Get(raw[f], One)
          [] f = "capex" -> IF raw[f].k = "missing" THEN Zero ELSE Neg(raw[f])
          [] OTHER       -> Get(raw[f], Zero)]

----------------------------------------------------------------------------
(* Assumptions, lines 72-76 *)

risk_free_rate == Q(917, 10000)
market_return == Q(8, 100)
growth_rate == Q(5, 100)
perpetual_growth_rate == Q(3, 100)
forecast_years == 5

wacc_floor == Q(5, 100)
wacc_cap == Q(25, 100)
default_tax_rate == Q(25, 100)
Hundred == I(100)

----------------------------------------------------------------------------
(* The valuation, lines 79-117 *)

\* line 79: the rate inside the primary FCFF, guarded by truthiness
primary_tax_rate(taxes, income_before_tax) ==
    IF Truthy(income_before_tax) THEN Div(taxes, income_before_tax)
    ELSE default_tax_rate

\* lines 84 and 89
effective_tax_rate(taxes, income_before_tax) ==
    IF NeZero(income_before_tax) THEN Div(taxes, income_before_tax)
    ELSE default_tax_rate

\* lines 79-80
primary_fcff(s) ==
    Sub(Sub(Add(Mul(s.ebit, Sub(One, primary_tax_rate(s.taxes, s.income_before_tax))),
                s.depreciation),
            s.capex),
        s.working_capital_change)

\* lines 83-86
fallback_fcff(s) ==
    LET nopat == Add(s.net_income,
                     Mul(s.interest_expense,
                         Sub(One, effective_tax_rate(s.taxes, s.income_before_tax))))
    IN Sub(Sub(Add(nopat, s.depreciation), s.capex), s.working_capital_change)

\* mutant of use_fallback: a primary FCFF of exactly 0 is kept
use_fallback_strict(fcff) == isnan(fcff) \/ Lt(fcff, Zero)

\* line 82: np.isnan(fcff) or fcff <= 0
use_fallback(fcff) == isnan(fcff) \/ Le(fcff, Zero)

\* lines 79-86
fcff_of(s) ==
    LET fcff == primary_fcff(s)
    IN IF fcff.k = "err" THEN Err
       ELSE IF use_fallback(fcff) THEN fallback_fcff(s) ELSE fcff

\* mutant of cost_of_debt: the guard on total_debt is missing
cost_of_debt_unguarded(interest_expense, total_debt, tax) ==
    Mul(Div(interest_expense, total_debt), Sub(One, tax))

\* line 90
cost_of_debt(interest_expense, total_debt, tax) ==
    IF NeZero(total_debt)
    THEN Mul(Div(interest_expense, total_debt), Sub(One, tax))
    ELSE Zero

\* line 91
cost_of_equity(beta) ==
    Add(risk_free_rate, Mul(beta, Sub(market_return, risk_free_rate)))

\* lines 92-94
weight_debt(total_debt, market_cap) ==
    LET total_weight == Add(total_debt, market_cap)
    IN IF NeZero(total_weight) THEN Div(total_debt, total_weight) ELSE Zero

weight_equity(total_debt, market_cap) ==
    LET total_weight == Add(total_debt, market_cap)
    IN IF NeZero(total_weight) THEN Div(market_cap, total_weight) ELSE One

\* line 95
raw_wacc(s) ==
    Add(Mul(weight_equity(s.total_debt, s.market_cap), cost_of_equity(s.beta)),
        Mul(weight_debt(s.total_debt, s.market_cap),
            cost_of_debt(s.interest_expense, s.total_debt,
                         effective_tax_rate(s.taxes, s.income_before_tax))))

\* line 96
clamp(wacc) == PyMin(PyMax(wacc, wacc_floor), wacc_cap)

\* lines 99-100
roic_of(s) ==
    LET invested_capital == Add(Sub(s.current_assets, s.current_liabilities), s.net_ppe)
    IN IF NeZero(invested_capital)
       THEN Div(Mul(s.ebit, Sub(One, effective_tax_rate(s.taxes, s.income_before_tax))),
                invested_capital)
       ELSE Zero

\* line 101
excess_returns_of(roic, wacc) ==
    IF NeZero(roic) /\ NeZero(wacc) THEN Sub(roic, wacc) ELSE Zero

\* line 104
future_fcff_of(fcff) ==
    [t \in 1..forecast_years |-> Mul(fcff, Pow(Add(One, growth_rate), t))]

\* line 105
last_fcff_of(future_fcff, fcff) ==
    IF Len(future_fcff) > 0 THEN future_fcff[Len(future_fcff)] ELSE fcff

\* mutant of terminal_value_of: WACC is compared with growth_rate
terminal_value_growth_guard(last_fcff, wacc) ==
    IF wacc.k = "err" THEN Err
    ELSE IF Gt(wacc, growth_rate)
         THEN Div(Mul(last_fcff, Add(One, perpetual_growth_rate)),
                  Sub(wacc, perpetual_growth_rate))
         ELSE Zero

\* line 106
terminal_value_of(last_fcff, wacc) ==
    IF wacc.k = "err" THEN Err
    ELSE IF Gt(wacc, perpetual_growth_rate)
         THEN Div(Mul(last_fcff, Add(One, perpetual_growth_rate)),
                  Sub(wacc, perpetual_growth_rate))
         ELSE Zero

\* line 108
pv_fcff_of(future_fcff, wacc) ==
    [t \in 1..Len(future_fcff) |-> Div(future_fcff[t], Pow(Add(One, wacc), t))]

\* line 109
pv_terminal_of(terminal_value, wacc) ==
    IF NeZero(terminal_value)
    THEN Div(terminal_value, Pow(Add(One, wacc), forecast_years))
    ELSE Zero

\* line 113
fair_value_of(market_equity_value, shares_outstanding) ==
    IF NeZero(shares_outstanding)
    THEN Div(market_equity_value, shares_outstanding)
    ELSE Zero

\* line 115
upside_of(fair_value_per_share, current_price) ==
    IF Truthy(current_price)
    THEN Mul(Div(Sub(fair_value_per_share, current_price), current_price), Hundred)
    ELSE Zero

\* line 116
margin_of_safety_of(fair_value_per_share, current_price) ==
    IF NeZero(fair_value_per_share)
    THEN Mul(Div(Sub(fair_value_per_share, current_price), fair_value_per_share), Hundred)
    ELSE Zero

\* mutant of valuation_of: an upside of 0 counts as Undervalued
valuation_nonstrict(upside) == IF Ge(upside, Zero) THEN "Undervalued" ELSE "Overvalued"

\* line 117
valuation_of(upside) == IF Gt(upside, Zero) THEN "Undervalued" ELSE "Overvalued"

\* the local variables of calculate_dcf after line 117
evaluate(s) ==
    LET fcff == fcff_of(s)
        tax == effective_tax_rate(s.taxes, s.income_before_tax)
        unclamped == raw_wacc(s)
        wacc == clamp(unclamped)
        roic == roic_of(s)
        future_fcff == future_fcff_of(fcff)
        last_fcff == last_fcff_of(future_fcff, fcff)
        terminal_value == terminal_value_of(last_fcff, wacc)
        pv_fcff == pv_fcff_of(future_fcff, wacc)
        pv_terminal == pv_terminal_of(terminal_value, wacc)
        total_pv == Add(PySum(pv_fcff), pv_terminal)
        market_equity_value == Sub(Add(total_pv, s.cash_equivalents), s.total_debt)
        fair_value_per_share == fair_value_of(market_equity_value, s.shares_outstanding)
        upside == upside_of(fair_value_per_share, s.current_price)
    IN [fcff |-> fcff,
        effective_tax_rate |-> tax,
        unclamped_wacc |-> unclamped,
        wacc |-> wacc,
        roic |-> roic,
        excess_returns |-> excess_returns_of(roic, wacc),
        future_fcff |-> future_fcff,
        last_fcff |-> last_fcff,
        terminal_value |-> terminal_value,
        pv_fcff |-> pv_fcff,
        pv_terminal |-> pv_terminal,
        total_pv |-> total_pv,
        market_equity_value |-> market_equity_value,
        fair_value_per_share |-> fair_value_per_share,
        upside |-> upside,
        margin_of_safety_pct |-> margin_of_safety_of(fair_value_per_share, s.current_price),
        valuation |-> valuation_of(upside)]

----------------------------------------------------------------------------
(* The batch: lines 37-196 run by pool workers, lines 201-232 by the main thread *)

MaxTickers == 3
max_threads == 5

\* line 201: the head of the ticker list
AllTickers == <<"ABG.JO", "ADH.JO", "AEL.JO", "AFE.JO", "AFH.JO">>

VARIABLES
    tickers,                 \* line 201: the input list
    provider,                \* what yfinance answers for the ticker at each position
    pc,                      \* per submitted call of safe_calculate_dcf: its position
    frame,                   \* per call: the locals of calculate_dcf
    future,                  \* per call: the Future of executor.map
    financial_data_records,  \* line 32: the module-level list
    dcf_reports,             \* the files <ticker>_dcf.txt written so far
    main_pc,                 \* position of the module-level code
    results,                 \* line 216
    printed,                 \* lines 219-221: the error lines printed
    csv                      \* line 229: the rows of financial_data.csv

vars == <<tickers, provider, pc, frame, future, financial_data_records,
          dcf_reports, main_pc, results, printed, csv>>

N == Len(tickers)
Calls == 1..N

\* outcomes of safe_calculate_dcf
ReturnedNone == [type |-> "NoneType", ticker |-> "", cause |-> ""]
\* mutant of error_outcome: the handler swallows the exception
error_swallowed(ticker, cause) == ReturnedNone

\* line 187: f"Error fetching data or calculating DCF for {ticker}: {e}"
error_outcome(ticker, cause) == [type |-> "str", ticker |-> ticker, cause |-> cause]
Pending == [type |-> "pending", ticker |-> "", cause |-> ""]

NoFrame == [ret |-> Pending]

\* any local of the valuation is the result of an operation that raised
Raised(dcf) ==
    \/ \E f \in {"fcff", "effective_tax_rate", "unclamped_wacc", "wacc", "roic",
                 "excess_returns", "last_fcff", "terminal_value", "pv_terminal",
                 "total_pv", "market_equity_value", "fair_value_per_share",
                 "upside", "margin_of_safety_pct"} : dcf[f].k = "err"
    \/ \E t \in 1..forecast_years :
          dcf.future_fcff[t].k = "err" \/ dcf.pv_fcff[t].k = "err"

\* lines 149-181: the numeric columns of the row
row_of(ticker, s, dcf) ==
    [Ticker |-> ticker,
     Current_Price |-> s.current_price,
     Fair_Value_Per_Share |-> dcf.fair_value_per_share,
     Upside |-> dcf.upside,
     Margin_of_Safety |-> dcf.margin_of_safety_pct,
     Valuation |-> dcf.valuation,
     EBIT |-> s.ebit, Taxes |-> s.taxes, Income_Before_Tax |-> s.income_before_tax,
     Depreciation |-> s.depreciation, CapEx |-> s.capex,
     Change_in_WC |-> s.working_capital_change,
     Interest_Expense |-> s.interest_expense, Total_Debt |-> s.total_debt,
     Cash_Equivalents |-> s.cash_equivalents,
     Shares_Outstanding |-> s.shares_outstanding, Market_Cap |-> s.market_cap,
     Current_Assets |-> s.current_assets,
     Current_Liabilities |-> s.current_liabilities, Net_PPE |-> s.net_ppe,
     Beta |-> s.beta,
     WACC |-> dcf.wacc, ROIC |-> dcf.roic, Excess_Returns |-> dcf.excess_returns,
     FCFF |-> dcf.fcff, Terminal_Value |-> dcf.terminal_value,
     Market_Equity_Value |-> dcf.market_equity_value]

(* main thread *)

\* executor.submit, called by executor.map for each ticker in order
Submit ==
    /\ main_pc = "map"
    /\ \E i \in Calls :
          /\ pc[i] = "unsubmitted"
          /\ \A j \in 1..(i - 1) : pc[j] # "unsubmitted"
          /\ pc' = [pc EXCEPT ![i] = "queued"]
    /\ UNCHANGED <<tickers, provider, frame, future, financial_data_records,
                   dcf_reports, main_pc, results, printed, csv>>

\* executor.map returns its result iterator once every call is submitted
Submitted ==
    /\ main_pc = "map"
    /\ \A i \in Calls : pc[i] # "unsubmitted"
    /\ main_pc' = "collect"
    /\ UNCHANGED <<tickers, provider, pc, frame, future, financial_data_records,
                   dcf_reports, results, printed, csv>>

\* mutant of map_yield: the futures are handed out last first
map_yield_reversed(k) == N + 1 - k

\* the k-th item of the iterator of executor.map is the k-th future submitted
map_yield(k) == k

\* mutant of result_ready: the result is taken without waiting
result_not_awaited(i) == TRUE

\* Future.result() blocks until the call has returned
result_ready(i) == future[i] # Pending

\* line 216: list() takes the next result
Collect ==
    /\ main_pc = "collect"
    /\ Len(results) < N
    /\ LET i == map_yield(Len(results) + 1)
       IN /\ result_ready(i)
          /\ results' = Append(results, future[i])
    /\ UNCHANGED <<tickers, provider, pc, frame, future, financial_data_records,
                   dcf_reports, main_pc, printed, csv>>

\* line 215: leaving the with block is executor.shutdown(wait=True)
pool_joined == \A i \in Calls : pc[i] = "done"

Shutdown ==
    /\ main_pc = "collect"
    /\ Len(results) = N
    /\ pool_joined
    /\ main_pc' = "print_errors"
    /\ UNCHANGED <<tickers, provider, pc, frame, future, financial_data_records,
                   dcf_reports, results, printed, csv>>

\* line 220: isinstance(res, str) and "Error" in res
is_error(res) == res.type = "str"

RECURSIVE error_lines(_, _)
error_lines(rs, k) ==
    IF k = 0 THEN << >>
    ELSE IF is_error(rs[k]) THEN Append(error_lines(rs, k - 1), rs[k])
         ELSE error_lines(rs, k - 1)

\* lines 219-221
PrintErrors ==
    /\ main_pc = "print_errors"
    /\ printed' = error_lines(results, Len(results))
    /\ main_pc' = "save_csv"
    /\ UNCHANGED <<tickers, provider, pc, frame, future, financial_data_records,
                   dcf_reports, results, csv>>

\* lines 226-232
SaveCSV ==
    /\ main_pc = "save_csv"
    /\ csv' = IF Len(financial_data_records) > 0 THEN financial_data_records ELSE csv
    /\ main_pc' = "done"
    /\ UNCHANGED <<tickers, provider, pc, frame, future, financial_data_records,
                   dcf_reports, results, printed>>

(* pool workers *)

Running == {i \in Calls : pc[i] \in {"fetch", "evaluate", "report", "append", "return"}}

\* an idle worker takes the oldest call of the work queue
Start(i) ==
    /\ pc[i] = "queued"
    /\ \A j \in 1..(i - 1) : pc[j] # "queued"
    /\ Cardinality(Running) < max_threads
    /\ pc' = [pc EXCEPT ![i] = "fetch"]
    /\ UNCHANGED <<tickers, provider, frame, future, financial_data_records,
                   dcf_reports, main_pc, results, printed, csv>>

\* lines 39-43; a failure of the provider is caught at line 186
Fetch(i) ==
    /\ pc[i] = "fetch"
    /\ IF provider[i].status = "ok"
       THEN /\ pc' = [pc EXCEPT ![i] = "evaluate"]
            /\ frame' = frame
       ELSE /\ pc' = [pc EXCEPT ![i] = "return"]
            /\ frame' = [frame EXCEPT ![i] =
                            [ret |-> error_outcome(tickers[i], provider[i].status)]]
    /\ UNCHANGED <<tickers, provider, future, financial_data_records,
                   dcf_reports, main_pc, results, printed, csv>>

\* lines 46-117; line 51 slices the summary, which raises on None
Evaluate(i) ==
    /\ pc[i] = "evaluate"
    /\ LET s == normalize(provider[i].items)
           dcf == evaluate(s)
       IN IF provider[i].summary = "None"
          THEN /\ pc' = [pc EXCEPT ![i] = "return"]
               /\ frame' = [frame EXCEPT ![i] =
                               [ret |-> error_outcome(tickers[i], "TypeError")]]
          ELSE IF Raised(dcf)
          THEN /\ pc' = [pc EXCEPT ![i] = "return"]
               /\ frame' = [frame EXCEPT ![i] =
                               [ret |-> error_outcome(tickers[i],
                                    IF \E f \in Fields : s[f].k = "none"
                                    THEN "TypeError" ELSE "ZeroDivisionError")]]
          ELSE /\ pc' = [pc EXCEPT ![i] = "report"]
               /\ frame' = [frame EXCEPT ![i] = [ret |-> Pending, s |-> s, dcf |-> dcf]]
    /\ UNCHANGED <<tickers, provider, future, financial_data_records,
                   dcf_reports, main_pc, results, printed, csv>>

\* lines 122-144
Report(i) ==
    /\ pc[i] = "report"
    /\ dcf_reports' = dcf_reports \cup {tickers[i]}
    /\ pc' = [pc EXCEPT ![i] = "append"]
    /\ UNCHANGED <<tickers, provider, frame, future, financial_data_records,
                   main_pc, results, printed, csv>>

\* lines 149-184
AppendRow(i) ==
    /\ pc[i] = "append"
    /\ financial_data_records' =
          Append(financial_data_records, row_of(tickers[i], frame[i].s, frame[i].dcf))
    /\ frame' = [frame EXCEPT ![i] = [ret |-> ReturnedNone]]
    /\ pc' = [pc EXCEPT ![i] = "return"]
    /\ UNCHANGED <<tickers, provider, future, dcf_reports, main_pc, results,
                   printed, csv>>

\* lines 184, 187, 194: the value becomes the result of the call's future
Return(i) ==
    /\ pc[i] = "return"
    /\ future' = [future EXCEPT ![i] = frame[i].ret]
    /\ frame' = [frame EXCEPT ![i] = NoFrame]
    /\ pc' = [pc EXCEPT ![i] = "done"]
    /\ UNCHANGED <<tickers, provider, financial_data_records, dcf_reports,
                   main_pc, results, printed, csv>>

Worker == \E i \in Calls : Start(i) \/ Fetch(i) \/ Evaluate(i) \/ Report(i)
                              \/ AppendRow(i) \/ Return(i)

Next == Submit \/ Submitted \/ Collect \/ Shutdown \/ PrintErrors \/ SaveCSV \/ Worker

----------------------------------------------------------------------------
(* Provider responses *)

AllMissing == [f \in Fields |-> Missing]

Response(status, summary, items) ==
    [status |-> status, summary |-> summary, items |-> items]

\* the provider fails: lines 39-43 raise
ProviderFailure == Response("ProviderError", "missing", AllMissing)

\* a response that reports every item
Reported ==
    Response("ok", "str",
             [AllMissing EXCEPT
                 !.ebit = I(4), !.taxes = I(1), !.income_before_tax = I(4),
                 !.depreciation = I(1), !.capex = I(-1),
                 !.working_capital_change = I(1), !.interest_expense = I(4),
                 !.total_debt = I(100), !.cash_equivalents = I(2),
                 !.shares_outstanding = I(2), !.market_cap = I(1),
                 !.current_assets = I(3), !.current_liabilities = I(2),
                 !.net_ppe = I(1), !.beta = One, !.current_price = I(1),
                 !.net_income = I(-1)])

\* info carries the key beta with no value: line 91 raises TypeError
BetaNone == Response("ok", "str", [Reported.items EXCEPT !.beta = None])

\* info carries longBusinessSummary with no value: line 51 raises TypeError
SummaryNone == Response("ok", "None", Reported.items)

BatchResponses == {ProviderFailure, Reported, BetaNone, SummaryNone}

Init ==
    /\ tickers \in {SubSeq(AllTickers, 1, n) : n \in 0..MaxTickers}
    /\ provider \in [1..Len(tickers) -> BatchResponses]
    /\ pc = [i \in 1..Len(tickers) |-> "unsubmitted"]
    /\ frame = [i \in 1..Len(tickers) |-> NoFrame]
    /\ future = [i \in 1..Len(tickers) |-> Pending]
    /\ financial_data_records = << >>
    /\ dcf_reports = {}
    /\ main_pc = "map"
    /\ results = << >>
    /\ printed = << >>
    /\ csv = << >>

Spec == Init /\ [][Next]_vars

----------------------------------------------------------------------------
(* The valuation alone: one ticker, every combination of absent and reported
   items.  The reported values are small and chosen so that every
   intermediate rational of lines 79-117 fits a 32-bit numerator. *)

\* depreciation, capital expenditure (as reported: negative) and change in
\* working capital
CashFlowItems ==
    {<<Missing, Missing, Missing>>, <<I(1), I(-1), Missing>>,
     <<Missing, I(-1), I(1)>>, <<Missing, Missing, I(1)>>}

\* current assets, current liabilities and net PPE; the third adds up to an
\* invested capital of zero
BalanceItems ==
    {<<Missing, Missing, Missing>>, <<I(3), I(2), I(1)>>, <<I(2), I(2), Missing>>}

EngineItems ==
    {[ebit |-> e, taxes |-> t, income_before_tax |-> p,
      depreciation |-> cf[1], capex |-> cf[2], working_capital_change |-> cf[3],
      interest_expense |-> ie, total_debt |-> td, cash_equivalents |-> ce,
      shares_outstanding |-> so, market_cap |-> mc,
      current_assets |-> bs[1], current_liabilities |-> bs[2], net_ppe |-> bs[3],
      beta |-> b, current_price |-> cp, net_income |-> ni] :
        e \in {Missing, I(4)}, t \in {Missing, I(1)}, p \in {Missing, I(4)},
        cf \in CashFlowItems,
        ie \in {Missing, I(4)}, td \in {Missing, I(100)}, ce \in {Missing, I(1)},
        so \in {Missing, I(2)}, mc \in {Missing, I(1)},
        bs \in BalanceItems,
        b \in {Missing, I(10)}, cp \in {Missing, I(1)}, ni \in {Missing, I(-1)}}

\* every item reported as 0; beta is absent, or 0 beside a debt that keeps
\* the weighted cost below the clamp
AllZero == [[f \in Fields |-> Zero] EXCEPT !.beta = Missing]

\* statement cells that are NaN, and debt-financed firms whose cost of debt
\* puts the weighted cost inside, on and above the clamp interval
DebtOnly == [Reported.items EXCEPT !.market_cap = Missing, !.total_debt = I(15)]

SpecialItems ==
    {AllZero,
     [AllZero EXCEPT !.beta = Zero, !.total_debt = I(100)],
     [Reported.items EXCEPT !.beta = Zero],
     [Reported.items EXCEPT !.interest_expense = NaN],
     [Reported.items EXCEPT !.ebit = NaN],
     [Reported.items EXCEPT !.total_debt = NaN],
     [Reported.items EXCEPT !.taxes = NaN],
     [Reported.items EXCEPT !.interest_expense = NaN, !.total_debt = Missing],
     [Reported.items EXCEPT !.total_debt = I(1)],
     DebtOnly,
     [DebtOnly EXCEPT !.interest_expense = I(1)],
     [DebtOnly EXCEPT !.interest_expense = I(5)],
     [DebtOnly EXCEPT !.interest_expense = I(2)]}

EngineResponses ==
    {Response("ok", "str", items) : items \in EngineItems \cup SpecialItems}

InitEngine ==
    /\ tickers = SubSeq(AllTickers, 1, 1)
    /\ provider \in [1..1 -> EngineResponses]
    /\ pc = [i \in 1..1 |-> "unsubmitted"]
    /\ frame = [i \in 1..1 |-> NoFrame]
    /\ future = [i \in 1..1 |-> Pending]
    /\ financial_data_records = << >>
    /\ dcf_reports = {}
    /\ main_pc = "map"
    /\ results = << >>
    /\ printed = << >>
    /\ csv = << >>

SpecEngine == InitEngine /\ [][Next]_vars

----------------------------------------------------------------------------
(* Properties of the batch *)

\* the position of a ticker in the input list
Position(t) == CHOOSE i \in Calls : tickers[i] = t

\* the pipeline of the ticker at position i fails: the provider fails, the
\* summary cannot be sliced (line 51), or beta has no value (line 91)
PipelineFails(i) ==
    \/ provider[i].status # "ok"
    \/ provider[i].summary = "None"
    \/ provider[i].items.beta.k = "none"

Collected == main_pc \in {"print_errors", "save_csv", "done"}

\* C1: the outcome at position k of results is the outcome returned by the
\* call for the ticker at position k of the input, whatever the order in
\* which the calls returned; an error outcome at position k names ticker k.
C1_OutcomesInInputOrder ==
    \A k \in 1..Len(results) :
        /\ results[k] = future[k]
        /\ results[k].type = "str" => results[k].ticker = tickers[k]
        /\ results[k].type = "str" <=> PipelineFails(k)

\* all results are in, the last ticker's row was appended first, and a
\* failing ticker sits between succeeding ones
C1_Witness ==
    /\ Collected
    /\ N >= 3
    /\ Len(financial_data_records) >= 2
    /\ financial_data_records[1].Ticker = tickers[N]
    /\ results[2].type = "str"
    /\ results[1].type = "NoneType"

\* every call that has returned has the outcome its own pipeline decides
C2_Outcomes ==
    \A i \in Calls :
        future[i] # Pending =>
           IF PipelineFails(i)
           THEN future[i].type = "str" /\ future[i].ticker = tickers[i]
           ELSE /\ future[i] = ReturnedNone
                /\ tickers[i] \in dcf_reports
                /\ \E r \in 1..Len(financial_data_records) :
                      financial_data_records[r].Ticker = tickers[i]

\* until the driver is done a call is queued or running, or the driver itself
\* can take its next step
BatchProceeds ==
    \/ \E i \in Calls : pc[i] \in {"queued", "fetch", "evaluate", "report",
                                   "append", "return"}
    \/ main_pc \in {"map", "print_errors", "save_csv"}
    \/ main_pc = "collect" /\ Len(results) = N /\ \A i \in Calls : pc[i] = "done"
    \/ main_pc = "collect" /\ Len(results) < N /\ future[Len(results) + 1] # Pending

\* C2: a call whose pipeline fails returns an error value naming its ticker;
\* a call whose pipeline does not fail returns the success value after its
\* report and its row were written, whatever the other calls did; and no
\* failure stops the batch before the driver is done.
C2_FaultIsolation ==
    /\ C2_Outcomes
    /\ main_pc # "done" => BatchProceeds

\* the batch is done, the first ticker failed at the provider, the second in
\* the valuation, and the third succeeded
C2_Witness ==
    /\ main_pc = "done"
    /\ N >= 3
    /\ provider[1].status # "ok"
    /\ provider[2] = BetaNone
    /\ results[1].type = "str" /\ results[2].type = "str"
    /\ results[3] = ReturnedNone

\* C3 (as claimed): the rows of financial_data_records, and of the CSV
\* written from it, are in the order of the input list.
C3_RowsInInputOrder ==
    /\ \A a, b \in 1..Len(financial_data_records) :
          a < b => Position(financial_data_records[a].Ticker)
                     < Position(financial_data_records[b].Ticker)
    /\ \A a, b \in 1..Len(csv) :
          a < b => Position(csv[a].Ticker) < Position(csv[b].Ticker)

\* C4 (as claimed): while the pool runs no worker has written to the shared
\* list; rows are put together only after the outcomes were collected.
C4_NoSharedWriteWhilePoolRuns ==
    main_pc \in {"map", "collect"} => financial_data_records = << >>

\* C5: once the driver is past the with block, every call has returned and
\* results holds one returned outcome per input ticker.
C5_AggregationAfterBarrier ==
    Collected =>
        /\ \A i \in Calls : pc[i] = "done"
        /\ Len(results) = N
        /\ \A k \in 1..Len(results) : results[k].type \in {"NoneType", "str"}

\* the driver starts printing errors with two or more outcomes of both kinds
C5_Witness ==
    /\ main_pc = "print_errors"
    /\ N >= 2
    /\ \E k \in 1..Len(results) : results[k].type = "str"
    /\ \E k \in 1..Len(results) : results[k].type = "NoneType"

----------------------------------------------------------------------------
(* Properties of the valuation *)

\* the calls whose valuation has completed and whose locals are still live
Valued == {i \in Calls : pc[i] \in {"report", "append"}}

\* every item of the response is absent or a finite number
ZeroOrMissingOrNumber(items) == \A f \in Fields : items[f].k \in {"missing", "num"}

\* C6 (as claimed): the output WACC lies in [0.05, 0.25]; it is 0.05 when the
\* unclamped value is <= 0.05, 0.25 when it is >= 0.25, else the unclamped value.
C6_WaccClamped ==
    \A i \in Valued :
        LET u == frame[i].dcf.unclamped_wacc
            w == frame[i].dcf.wacc
        IN /\ Ge(w, wacc_floor) /\ Le(w, wacc_cap)
           /\ Le(u, wacc_floor) => w = wacc_floor
           /\ Ge(u, wacc_cap) => w = wacc_cap
           /\ (Gt(u, wacc_floor) /\ Lt(u, wacc_cap)) => w = u

\* C7: with every item absent or a finite number (zero included) no division
\* of the valuation divides by zero and nothing raises: the call returns the
\* success value.
C7_NoDivisionFault ==
    \A i \in Calls :
        (provider[i].status = "ok" /\ provider[i].summary # "None"
           /\ ZeroOrMissingOrNumber(provider[i].items)) =>
            /\ pc[i] = "return" => frame[i].ret = ReturnedNone
            /\ pc[i] = "done" => future[i] = ReturnedNone

\* the call for a response without any item has returned
C7_Witness ==
    \E i \in Calls :
        /\ provider[i].items = AllMissing
        /\ provider[i].status = "ok"
        /\ pc[i] = "done"
        /\ future[i] = ReturnedNone

\* C8: with WACC <= perpetual_growth_rate the terminal value and its present
\* value are 0; with WACC > perpetual_growth_rate the terminal value is
\* future_fcff[forecast_years] * (1 + g) / (WACC - g), over a positive denominator.
C8_TerminalValue ==
    \A i \in Valued :
        LET d == frame[i].dcf
            den == Sub(d.wacc, perpetual_growth_rate)
        IN /\ Le(d.wacc, perpetual_growth_rate) =>
                 d.terminal_value = Zero /\ d.pv_terminal = Zero
           /\ Gt(d.wacc, perpetual_growth_rate) =>
                 /\ Gt(den, Zero)
                 /\ d.terminal_value =
                       Div(Mul(d.future_fcff[forecast_years],
                               Add(One, perpetual_growth_rate)), den)

\* a valuation at the floor of the clamp with a terminal value other than 0
C8_Witness ==
    \E i \in Valued :
        /\ frame[i].dcf.wacc = wacc_floor
        /\ IsNum(frame[i].dcf.terminal_value)
        /\ frame[i].dcf.terminal_value # Zero

\* C9: with shares_outstanding = 0 the fair value per share and the margin of
\* safety are 0, the upside is -100 for a price other than 0 and 0 for a
\* price of 0, and the verdict is Overvalued.
C9_NoShares ==
    \A i \in Valued :
        frame[i].s.shares_outstanding = Zero =>
            LET d == frame[i].dcf
                price == frame[i].s.current_price
            IN /\ d.fair_value_per_share = Zero
               /\ d.margin_of_safety_pct = Zero
               /\ price # Zero => d.upside = I(-100)
               /\ price = Zero => d.upside = Zero
               /\ d.valuation = "Overvalued"

\* a valuation without shares, a price and an equity value other than 0
C9_Witness ==
    \E i \in Valued :
        /\ frame[i].s.shares_outstanding = Zero
        /\ frame[i].s.current_price # Zero
        /\ frame[i].dcf.market_equity_value # Zero
        /\ frame[i].dcf.upside = I(-100)

\* C10: the reported FCFF is the primary formula when that is > 0 and the
\* fallback formula when the primary is NaN or <= 0, both with the tax rate
\* taxes / pretax_income, or 0.25 for a pretax income of 0.
C10_Fcff ==
    \A i \in Valued :
        LET s == frame[i].s
            rate == IF s.income_before_tax = Zero THEN Q(1, 4)
                    ELSE Div(s.taxes, s.income_before_tax)
            rest == Sub(Sub(s.depreciation, s.capex), s.working_capital_change)
            primary == Add(Mul(s.ebit, Sub(One, rate)), rest)
            fallback == Add(Add(s.net_income, Mul(s.interest_expense, Sub(One, rate))),
                            rest)
        IN /\ Gt(primary, Zero) => frame[i].dcf.fcff = primary
           /\ (isnan(primary) \/ Le(primary, Zero)) => frame[i].dcf.fcff = fallback
           /\ frame[i].dcf.effective_tax_rate = rate

\* a valuation whose primary FCFF is 0 and whose fallback is not
C10_Witness ==
    \E i \in Valued :
        /\ primary_fcff(frame[i].s) = Zero
        /\ frame[i].dcf.fcff # Zero
        /\ frame[i].s.income_before_tax # Zero

====
